---- MODULE Spec2Model ----
(***************************************************************************)
(* The HTTP gateway of mineru-mcp (src/src/server.ts): the registry of     *)
(* transports keyed by session id and the three handlers of /mcp.          *)
(*                                                                         *)
(* One action is one run of handler code between two suspension points of  *)
(* the single-threaded event loop: the arrival of a request up to its      *)
(* first await, and the continuation after `await server.connect`.         *)
(*                                                                         *)
(* The second part is the tool layer of src/src/index.ts: mineruRequest,   *)
(* the four tool handlers and their formatters. A tool invocation shares   *)
(* no state with another one, so one action is one whole invocation.       *)
(***************************************************************************)
EXTENDS Integers, Sequences, FiniteSets, TLC

\* Bounds of the model.
MaxSessions == 2      \* transports built by initialize requests
MaxInFlight == 2      \* handlers suspended at an await at the same time
MaxResults == 3       \* entries of a batch's extract_result
MaxLimit == 3         \* largest limit, and how far an offset goes past the end

\* The most URLs mineru_batch takes.
MaxBatchUrls == 200

\* ------------------------------------------------------------------ values

\* req.headers["mcp-session-id"] when the header is missing.
Undefined == "<undefined>"

\* A property name every object literal inherits from Object.prototype
\* (toString, valueOf, __proto__, ... behave alike).
ObjectPrototypeKeys == {"constructor"}

\* The n-th distinct value randomUUID can return.
Uuid(n) == "uuid-" \o ToString(n)

\* The UUIDs of the model: one more than the sessions that can be built, so
\* that some id is never issued.
Uuids == {Uuid(n) : n \in 1..(MaxSessions + 1)}

\* The values a client can send as the mcp-session-id header.
SessionIdHeaders == {Undefined, ""} \cup ObjectPrototypeKeys \cup Uuids

\* Request bodies as express.json() hands them over: a valid initialize
\* request, and a body that is none (another JSON-RPC message, or an
\* initialize message that fails the schema).
Bodies == {"initialize", "other"}

\* Values of a registry lookup that are not transports.
Absent == 0           \* undefined
Inherited == -1       \* a member of Object.prototype (a function or object)

\* JavaScript truthiness of a session id header and of a lookup result.
TruthyId(sessionId) == sessionId \notin {Undefined, ""}
Truthy(v) == v # Absent

\* Whether a looked-up value has a handleRequest method.
IsTransport(v) == v >= 1

\* A check of the method name alone, which lets every body through here.
isInitializeRequest_lax(body) == TRUE

\* isInitializeRequest(req.body): the body parses as an InitializeRequest.
isInitializeRequest(body) == body = "initialize"

VARIABLES
    transports,   \* the registry: own properties of the object, id -> transport
    tr,           \* the transports built so far, tr[t] = its fields
    inflight,     \* suspended handlers, in order of arrival
    ev,           \* what the last step of the gateway did
    config,       \* the configuration createServer is given
    call          \* the last tool invocation: arguments, remote response, result

gateway == <<transports, tr, inflight, ev>>

tools == <<config, call>>

vars == <<transports, tr, inflight, ev, config, call>>

\* transports[sessionId] on an object literal: an own property, else a
\* property inherited from Object.prototype, else undefined.
Lookup(reg, sessionId) ==
    IF sessionId \in DOMAIN reg THEN reg[sessionId]
    ELSE IF sessionId \in ObjectPrototypeKeys THEN Inherited
    ELSE Absent

\* The session ids issued so far.
Issued == {tr[t].sessionId : t \in 1..Len(tr)} \ {Undefined}

\* A generator whose draws may repeat.
randomUUID_collide == Uuids

\* The values sessionIdGenerator may return: randomUUID() draws a version-4
\* UUID distinct from every earlier draw, the next unused one of the model.
randomUUID == {Uuid(Cardinality(Issued) + 1)}

\* onsessioninitialized: transports[newSessionId] = transport.
onsessioninitialized(reg, newSessionId, t) ==
    [s \in DOMAIN reg \cup {newSessionId} |->
        IF s = newSessionId THEN t ELSE reg[s]]

\* A close callback that leaves the entry for a later sweep.
onclose_lazy(reg, sessionId) == reg

\* A close callback that empties the registry.
onclose_clearAll(reg, sessionId) == [s \in {} |-> Absent]

\* transport.onclose: if (transport.sessionId) delete transports[...].
onclose(reg, sessionId) ==
    IF TruthyId(sessionId)
    THEN [s \in DOMAIN reg \ {sessionId} |-> reg[s]]
    ELSE reg

\* createServer({config}): a new server instance per call.
createServer(n) == n + 1

\* One transport built at module level and used by every initialize request.
NewTransport_shared(n) == 1

\* new StreamableHTTPServerTransport(...): a new object per call.
NewTransport(n) == n + 1

\* What a step of the gateway did: the handler that ran (op), the request
\* it ran for, the value of its local `transport`, and how it left off.
Event(op, method, sessionId, body, transport, status) ==
    [op |-> op, method |-> method, sessionId |-> sessionId, body |-> body,
     transport |-> transport, status |-> status]

\* A handler suspended at an await: where it waits and the local it still
\* uses, `transport`.
Suspended(method, transport, pc) ==
    [method |-> method, transport |-> transport, pc |-> pc]

\* No tool has been invoked yet.
NoCall ==
    [tool |-> "none", args |-> <<>>, response |-> <<>>, data |-> <<>>,
     earlier |-> <<>>, done |-> TRUE, result |-> <<>>]

\* The registry and the handlers right after the module has loaded.
GatewayInit ==
    /\ transports = [s \in {} |-> Absent]
    /\ tr = <<>>
    /\ inflight = <<>>
    /\ ev = Event("start", "none", Undefined, "none", Absent, "none")

\* The server started with MINERU_API_KEY unset.
Init ==
    /\ GatewayInit
    /\ config = [mineruApiKey |-> ""]
    /\ call = NoCall

\* The handler answered 400 itself and returned.
Reject400(method, sessionId, body) ==
    /\ ev' = Event("request", method, sessionId, body, Absent, "400")
    /\ UNCHANGED <<transports, tr, inflight>>

\* transport.handleRequest on a value that is no transport: TypeError, the
\* handler's promise rejects and the handler writes no response.
ThrowTypeError(method, sessionId, body) ==
    /\ ev' = Event("request", method, sessionId, body, Absent, "TypeError")
    /\ UNCHANGED <<transports, tr, inflight>>

\* A handler that waits at another await before it hands the request over.
Forward_deferred(method, sessionId, body, t) ==
    /\ Len(inflight) < MaxInFlight
    /\ inflight' = Append(inflight, Suspended(method, t, "connect"))
    /\ ev' = Event("request", method, sessionId, body, t, "connecting")
    /\ UNCHANGED <<transports, tr>>

\* await transport.handleRequest(req, res, ...) for a POST or GET: the
\* transport has the request, the handler is suspended until it settles.
Forward(method, sessionId, body, t) ==
    /\ Len(inflight) < MaxInFlight
    /\ inflight' = Append(inflight, Suspended(method, t, "handleRequest"))
    /\ ev' = Event("request", method, sessionId, body, t, "forwarded")
    /\ UNCHANGED <<transports, tr>>

\* An initialization branch that stores the transport in the registry as soon
\* as it is built, under the session id it has then (none).
Initialize_registersEarly(sessionId, body) ==
    /\ Len(tr) < MaxSessions
    /\ Len(inflight) < MaxInFlight
    /\ tr' = Append(tr, [sessionId |-> Undefined, closed |-> FALSE,
                         server |-> createServer(Len(tr))])
    /\ inflight' = Append(inflight,
                          Suspended("POST", NewTransport(Len(tr)), "connect"))
    /\ ev' = Event("request", "POST", sessionId, body, NewTransport(Len(tr)),
                   "connecting")
    /\ transports' = onsessioninitialized(transports, Undefined,
                                          NewTransport(Len(tr)))

\* The branch of app.post("/mcp") for a new initialization request: a new
\* transport and a new server, then the handler suspends at
\* await server.connect(transport).
Initialize(sessionId, body) ==
    /\ Len(tr) < MaxSessions
    /\ Len(inflight) < MaxInFlight
    /\ tr' = Append(tr, [sessionId |-> Undefined, closed |-> FALSE,
                         server |-> createServer(Len(tr))])
    /\ inflight' = Append(inflight,
                          Suspended("POST", NewTransport(Len(tr)), "connect"))
    /\ ev' = Event("request", "POST", sessionId, body, NewTransport(Len(tr)),
                   "connecting")
    /\ UNCHANGED transports

\* A handler that takes an initialize request under any unregistered id.
PostMcp_anyUnregisteredId(sessionId, body) ==
    IF TruthyId(sessionId) /\ Truthy(Lookup(transports, sessionId))
    THEN IF IsTransport(Lookup(transports, sessionId))
         THEN Forward("POST", sessionId, body, Lookup(transports, sessionId))
         ELSE ThrowTypeError("POST", sessionId, body)
    ELSE IF isInitializeRequest(body)
    THEN Initialize(sessionId, body)
    ELSE Reject400("POST", sessionId, body)

\* app.post("/mcp")
PostMcp(sessionId, body) ==
    IF TruthyId(sessionId) /\ Truthy(Lookup(transports, sessionId))
    THEN \* Reuse existing transport
         IF IsTransport(Lookup(transports, sessionId))
         THEN Forward("POST", sessionId, body, Lookup(transports, sessionId))
         ELSE ThrowTypeError("POST", sessionId, body)
    ELSE IF ~TruthyId(sessionId) /\ isInitializeRequest(body)
    THEN Initialize(sessionId, body)
    ELSE Reject400("POST", sessionId, body)

\* app.get("/mcp")
GetMcp(sessionId) ==
    IF ~TruthyId(sessionId) \/ ~Truthy(Lookup(transports, sessionId))
    THEN Reject400("GET", sessionId, "none")
    ELSE IF IsTransport(Lookup(transports, sessionId))
    THEN Forward("GET", sessionId, "none", Lookup(transports, sessionId))
    ELSE ThrowTypeError("GET", sessionId, "none")

\* transport.handleRequest for a DELETE: the transport closes, which runs
\* onclose before the call returns, and answers the request.
Terminate(sessionId, t) ==
    /\ tr' = [tr EXCEPT ![t].closed = TRUE]
    /\ transports' = onclose(transports, tr[t].sessionId)
    /\ ev' = Event("request", "DELETE", sessionId, "none", t, "closed")
    /\ UNCHANGED inflight

\* app.delete("/mcp")
DeleteMcp(sessionId) ==
    IF ~TruthyId(sessionId) \/ ~Truthy(Lookup(transports, sessionId))
    THEN Reject400("DELETE", sessionId, "none")
    ELSE IF IsTransport(Lookup(transports, sessionId))
    THEN Terminate(sessionId, Lookup(transports, sessionId))
    ELSE ThrowTypeError("DELETE", sessionId, "none")

Remove(seq, i) == SubSeq(seq, 1, i - 1) \o SubSeq(seq, i + 1, Len(seq))

\* The continuation of an initialize request after await server.connect:
\* transport.handleRequest(req, res, req.body) generates the session id and
\* calls onsessioninitialized before it handles the message.
ConnectedWith(i, draws) ==
    /\ inflight[i].pc = "connect"
    /\ LET t == inflight[i].transport IN
       \E newSessionId \in draws :
          /\ tr' = [tr EXCEPT ![t].sessionId = newSessionId]
          /\ transports' = onsessioninitialized(transports, newSessionId, t)
          /\ inflight' = [inflight EXCEPT ![i].pc = "handleRequest"]
          /\ ev' = Event("connected", "POST", newSessionId, "initialize", t,
                         "forwarded")

Connected(i) == ConnectedWith(i, randomUUID)

\* The same continuation when the generator's draw is not assumed new.
ConnectedAnyDraw(i) == ConnectedWith(i, Uuids)

\* await transport.handleRequest settles: the transport has answered.
Responded(i) ==
    /\ inflight[i].pc = "handleRequest"
    /\ inflight' = Remove(inflight, i)
    /\ ev' = Event("responded", inflight[i].method, tr[inflight[i].transport].sessionId,
                   "none", inflight[i].transport, "answered")
    /\ UNCHANGED <<transports, tr>>

\* await transport.handleRequest rejects: nothing around the await catches
\* it, the handler's promise rejects and the handler writes no response.
Rejected(i) ==
    /\ inflight[i].pc = "handleRequest"
    /\ inflight' = Remove(inflight, i)
    /\ ev' = Event("rejected", inflight[i].method, tr[inflight[i].transport].sessionId,
                   "none", inflight[i].transport, "uncaught")
    /\ UNCHANGED <<transports, tr>>

Arrival ==
    \/ \E sessionId \in SessionIdHeaders, body \in Bodies :
          PostMcp(sessionId, body)
    \/ \E sessionId \in SessionIdHeaders : GetMcp(sessionId)
    \/ \E sessionId \in SessionIdHeaders : DeleteMcp(sessionId)

Settled ==
    \/ \E i \in 1..Len(inflight) : Responded(i)
    \/ \E i \in 1..Len(inflight) : Rejected(i)

Next ==
    \/ Arrival /\ UNCHANGED tools
    \/ (\E i \in 1..Len(inflight) : Connected(i)) /\ UNCHANGED tools
    \/ Settled /\ UNCHANGED tools

Spec == Init /\ [][Next]_vars

\* The gateway when two draws of the generator may coincide.
NextCollide ==
    \/ Arrival /\ UNCHANGED tools
    \/ (\E i \in 1..Len(inflight) : ConnectedAnyDraw(i)) /\ UNCHANGED tools
    \/ Settled /\ UNCHANGED tools

SpecCollide == Init /\ [][NextCollide]_vars

\* ------------------------------------------------------- src/src/index.ts

\* JavaScript truthiness of an optional string, a || b, and the text a
\* template literal gives an optional string.
TruthyStr(v) == v \notin {Undefined, ""}
Or(a, b) == IF TruthyStr(a) THEN a ELSE b
Render(v) == IF v = Undefined THEN "undefined" ELSE v

\* config.mineruApiKey: "" when MINERU_API_KEY is unset, else the key.
ApiKeys == {"", "sk-key"}

\* ERROR_MESSAGES
ERROR_MESSAGES ==
    [code \in {"A0202", "A0211", "-60002", "-60005", "-60006", "-60008",
               "-60009", "-60012", "-60013"} |->
        CASE code = "A0202" -> "Token error. Check your API key."
          [] code = "A0211" -> "Token expired. Get a new API key."
          [] code = "-60002" ->
                "Invalid file format. Use: pdf, doc, docx, ppt, pptx, png, jpg, jpeg"
          [] code = "-60005" -> "File too large. Max 200MB."
          [] code = "-60006" ->
                "Too many pages. Max 600 per file. Split the document."
          [] code = "-60008" -> "URL timeout. Check the URL is accessible."
          [] code = "-60009" -> "Queue full. Try again later."
          [] code = "-60012" -> "Task not found. Check task_id is valid."
          [] code = "-60013" ->
                "Access denied. You can only access your own tasks."]

\* ERROR_MESSAGES[code]
ErrorMessage(code) ==
    IF code \in DOMAIN ERROR_MESSAGES THEN ERROR_MESSAGES[code] ELSE Undefined

\* What axios meets: a 2xx response carrying an envelope {code, msg, data},
\* a response with another status whose body may carry code and msg, or no
\* response at all. code is String(code); "0" stands for the number 0.
Envelope(kind, status, code, msg, message) ==
    [kind |-> kind, status |-> status, code |-> code, msg |-> msg,
     message |-> message]

ServiceMessages == {Undefined, "", "quota exceeded"}

Responses ==
    {Envelope("2xx", "200", code, msg, Undefined) :
        code \in {"0", "-60006", "-99999"}, msg \in ServiceMessages}
    \cup {Envelope("status", "500", code, msg,
                   "Request failed with status code 500") :
        code \in {Undefined, "-60006", "-99999"}, msg \in ServiceMessages}
    \cup {Envelope("none", Undefined, Undefined, Undefined, "Network Error")}

\* The outcome of mineruRequest: the axios calls it made, and either the
\* envelope's data or the message of the Error it threw.
Returned(calls, data) ==
    [calls |-> calls, ok |-> TRUE, error |-> "", data |-> data]

Threw(calls, message) ==
    [calls |-> calls, ok |-> FALSE, error |-> message, data |-> Undefined]

\* A request that goes out without looking at the key.
MissingKey_unchecked(apiKey) == FALSE

\* if (!apiKey)
MissingKey(apiKey) == apiKey = ""

\* A client that sends the request again when the first attempt failed.
Attempts_retry(resp) ==
    IF resp.kind = "2xx" /\ resp.code = "0" THEN 1 ELSE 1 + 1

\* The axios calls of one mineruRequest: the single await axios({...}).
Attempts(resp) == 1

\* mineruRequest(endpoint, method, data), answered by resp with payload data.
mineruRequest(apiKey, resp, data) ==
    IF MissingKey(apiKey)
    THEN Threw(0, "MINERU_API_KEY not set. Add it to your environment.")
    ELSE IF resp.kind = "2xx"
    THEN IF resp.code # "0"
         THEN Threw(Attempts(resp),
                    "MinerU error " \o resp.code \o ": "
                       \o Or(Or(ErrorMessage(resp.code), resp.msg),
                             "Unknown error"))
         ELSE Returned(Attempts(resp), data)
    ELSE \* error instanceof AxiosError
         IF resp.code \notin {Undefined, "0", ""}
         THEN Threw(Attempts(resp),
                    "MinerU error " \o resp.code \o ": "
                       \o Render(Or(ErrorMessage(resp.code), resp.msg)))
         ELSE Threw(Attempts(resp),
                    "HTTP " \o Render(resp.status) \o ": " \o resp.message)

\* What a tool invocation gives the caller: the text of its content, or the
\* message of the Error the handler threw.
ToolResult(calls, isError, text) ==
    [calls |-> calls, isError |-> isError, text |-> text]

\* The mineru_parse handler.
mineru_parse(apiKey, resp, data) ==
    LET result == mineruRequest(apiKey, resp, data) IN
    IF ~result.ok THEN ToolResult(result.calls, TRUE, result.error)
    ELSE ToolResult(result.calls, FALSE,
                    "Task created: " \o result.data.task_id
                       \o "\nUse mineru_status to check progress.")

\* A limit check that is off by one.
TooManyUrls_offByOne(n) == n >= MaxBatchUrls

\* params.urls.length > 200
TooManyUrls(n) == n > MaxBatchUrls

\* The mineru_batch handler for n URLs.
mineru_batch(apiKey, n, resp, data) ==
    IF TooManyUrls(n)
    THEN ToolResult(0, TRUE,
                    "Max 200 URLs per batch. Split into smaller batches.")
    ELSE LET result == mineruRequest(apiKey, resp, data) IN
         IF ~result.ok THEN ToolResult(result.calls, TRUE, result.error)
         ELSE ToolResult(result.calls, FALSE,
                         "Batch created: " \o result.data.batch_id \o "\n"
                            \o ToString(n) \o " files queued."
                            \o "\nUse mineru_batch_status to check progress.")

\* The lengths of params.urls: around the limit and far below it.
UrlCounts ==
    {0, 1, MaxBatchUrls - 1, MaxBatchUrls, MaxBatchUrls + 1, MaxBatchUrls + 2}

\* A tool invocation under observation: the arguments the client sent, the
\* response the service gives and the payload of its envelope, the texts of
\* the pages the client has read before, and the handler's result once it
\* has run.
Invocation(tool, args, resp, data) ==
    [tool |-> tool, args |-> args, response |-> resp, data |-> data,
     earlier |-> <<>>, done |-> FALSE, result |-> ToolResult(0, FALSE, "")]

\* The payload comes with a success envelope only.
Succeeds(resp) == resp.kind = "2xx" /\ resp.code = "0"

Answers(payloads) ==
    {<<resp, data>> \in Responses \X (payloads \cup {<<>>}) :
        Succeeds(resp) <=> data # <<>>}

MineruParse ==
    /\ call.tool = "mineru_parse" /\ ~call.done
    /\ call' = [call EXCEPT
                  !.done = TRUE,
                  !.result = mineru_parse(config.mineruApiKey, call.response,
                                          call.data)]
    /\ UNCHANGED <<config, gateway>>

MineruBatch ==
    /\ call.tool = "mineru_batch" /\ ~call.done
    /\ call' = [call EXCEPT
                  !.done = TRUE,
                  !.result = mineru_batch(config.mineruApiKey, call.args.urls,
                                          call.response, call.data)]
    /\ UNCHANGED <<config, gateway>>

\* parts.join(sep)
RECURSIVE Join(_, _)
Join(parts, sep) ==
    IF parts = <<>> THEN ""
    ELSE IF Len(parts) = 1 THEN parts[1]
    ELSE parts[1] \o sep \o Join(Tail(parts), sep)

\* JSON.stringify(value, null, 2), left uninterpreted.
Stringify(value) == <<"JSON.stringify", value>>

\* extract_progress when the service sends none.
NoProgress == <<>>

\* A status line that shows the result URL whatever the state.
formatConciseStatus_urlAlways(status) ==
    Join(<<status.state, status.task_id>>
            \o (IF TruthyStr(status.full_zip_url)
                THEN <<status.full_zip_url>> ELSE <<>>),
         " | ")

\* formatConciseStatus
formatConciseStatus(status) ==
    LET p == status.extract_progress
        extra ==
            IF status.state = "done" /\ TruthyStr(status.full_zip_url)
            THEN <<status.full_zip_url>>
            ELSE IF status.state = "running" /\ p # NoProgress
            THEN <<ToString(p.extracted_pages) \o "/"
                      \o ToString(p.total_pages) \o " pages">>
            ELSE IF status.state = "failed" /\ TruthyStr(status.err_msg)
            THEN <<status.err_msg>>
            ELSE <<>>
    IN  Join(<<status.state, status.task_id>> \o extra, " | ")

\* formatDetailedStatus
formatDetailedStatus(status) == Stringify(status)

\* The mineru_status handler.
mineru_status(apiKey, format, resp, data) ==
    LET result == mineruRequest(apiKey, resp, data) IN
    IF ~result.ok THEN ToolResult(result.calls, TRUE, result.error)
    ELSE ToolResult(result.calls, FALSE,
                    IF format = "detailed"
                    THEN formatDetailedStatus(result.data)
                    ELSE formatConciseStatus(result.data))

Min(a, b) == IF a < b THEN a ELSE b
Max(a, b) == IF a > b THEN a ELSE b

\* Array.prototype.slice(start, end): a negative index counts from the end,
\* both are clamped to the array.
Slice(array, start, end) ==
    LET len == Len(array)
        from == IF start < 0 THEN Max(len + start, 0) ELSE Min(start, len)
        to == IF end < 0 THEN Max(len + end, 0) ELSE Min(end, len)
    IN  IF from < to THEN SubSeq(array, from + 1, to) ELSE <<>>

\* The line formatConciseBatch writes for one entry.
BatchLine(r) ==
    "- " \o r.file_name \o ": " \o r.state
       \o (IF r.state = "done" /\ TruthyStr(r.full_zip_url)
           THEN " " \o r.full_zip_url
           ELSE IF r.state = "running" /\ r.extract_progress # NoProgress
           THEN " (" \o ToString(r.extract_progress.extracted_pages) \o "/"
                   \o ToString(r.extract_progress.total_pages) \o ")"
           ELSE "")

\* A continuation test that also fires on the last full page.
HasMore_inclusive(offset, limit, total) == offset + limit <= total

\* offset + limit < total
HasMore(offset, limit, total) == offset + limit < total

\* formatConciseBatch
formatConciseBatch(batch, limit, offset) ==
    LET results == Slice(batch.extract_result, offset, offset + limit)
        total == Len(batch.extract_result)
        done == Cardinality({i \in 1..total :
                                batch.extract_result[i].state = "done"})
        header == "Batch " \o batch.batch_id \o ": " \o ToString(done) \o "/"
                     \o ToString(total) \o " done"
        hint == IF HasMore(offset, limit, total)
                THEN <<"[+" \o ToString(total - offset - limit)
                          \o " more, use offset=" \o ToString(offset + limit)
                          \o "]">>
                ELSE <<>>
    IN  Join(<<header>> \o [i \in 1..Len(results) |-> BatchLine(results[i])]
                \o hint,
             "\n")

\* The mineru_batch_status handler.
mineru_batch_status(apiKey, limit, offset, format, resp, data) ==
    LET result == mineruRequest(apiKey, resp, data) IN
    IF ~result.ok THEN ToolResult(result.calls, TRUE, result.error)
    ELSE ToolResult(result.calls, FALSE,
                    IF format = "detailed"
                    THEN Stringify(result.data)
                    ELSE formatConciseBatch(result.data, limit, offset))

MineruStatus ==
    /\ call.tool = "mineru_status" /\ ~call.done
    /\ call' = [call EXCEPT
                  !.done = TRUE,
                  !.result = mineru_status(config.mineruApiKey,
                                           call.args.format, call.response,
                                           call.data)]
    /\ UNCHANGED <<config, gateway>>

MineruBatchStatus ==
    /\ call.tool = "mineru_batch_status" /\ ~call.done
    /\ call' = [call EXCEPT
                  !.done = TRUE,
                  !.result = mineru_batch_status(config.mineruApiKey,
                                call.args.limit, call.args.offset,
                                call.args.format, call.response, call.data)]
    /\ UNCHANGED <<config, gateway>>

\* The client reads the next page: the same call with offset + limit, as long
\* as that offset is inside the results.
NextPage ==
    /\ call.tool = "mineru_batch_status" /\ call.done
    /\ ~call.result.isError
    /\ call.args.format = "concise"
    /\ call.args.limit > 0
    /\ call.args.offset + call.args.limit < Len(call.data.extract_result)
    /\ call' = [call EXCEPT
                  !.args.offset = @ + call.args.limit,
                  !.earlier = Append(@, call.result.text),
                  !.done = FALSE]
    /\ UNCHANGED <<config, gateway>>

\* ---------------------------------------------------- tool invocations

Formats == {"concise", "detailed"}

\* The status records the service returns for a task.
TaskStatuses ==
    {[task_id |-> "abc-123", state |-> state, full_zip_url |-> url,
      err_msg |-> err, extract_progress |-> progress] :
        state \in {"pending", "running", "done", "failed", "converting"},
        url \in {Undefined, "https://cdn-mineru/result.zip"},
        err \in {Undefined, "", "corrupt file"},
        progress \in {NoProgress,
                      [extracted_pages |-> 3, total_pages |-> 10]}}

\* The shapes of a batch entry; its file_name is set by its place.
EntryShapes ==
    {[state |-> "done", full_zip_url |-> "https://cdn-mineru/r.zip",
      extract_progress |-> NoProgress],
     [state |-> "running", full_zip_url |-> Undefined,
      extract_progress |-> [extracted_pages |-> 1, total_pages |-> 4]],
     [state |-> "failed", full_zip_url |-> Undefined,
      extract_progress |-> NoProgress]}

Named(shape, i) ==
    [file_name |-> "doc" \o ToString(i) \o ".pdf", state |-> shape.state,
     full_zip_url |-> shape.full_zip_url,
     extract_progress |-> shape.extract_progress]

\* The batches the service returns: up to MaxResults entries, in its order.
Batches ==
    {[batch_id |-> "batch-123",
      extract_result |-> [i \in 1..n |-> Named(shapes[i], i - 1)]] :
        n \in 0..MaxResults, shapes \in [1..MaxResults -> EntryShapes]}

\* limit and offset as the schema takes them: any number.
Limits == (0 - 1)..MaxLimit
Offsets == (0 - 2)..(MaxResults + 1)

\* The invocations a client can make, each with the service's answer.
Invocations ==
    {Invocation("mineru_parse", [url |-> "https://example.com/a.pdf"],
                a[1], a[2]) : a \in Answers({[task_id |-> "abc-123"]})}
    \cup {Invocation("mineru_status", [task_id |-> "abc-123", format |-> f],
                     a[1], a[2]) : f \in Formats, a \in Answers(TaskStatuses)}
    \cup {Invocation("mineru_batch", [urls |-> n], a[1], a[2]) :
             n \in UrlCounts, a \in Answers({[batch_id |-> "batch-123"]})}
    \cup {Invocation("mineru_batch_status",
                     [batch_id |-> "batch-123", limit |-> l, offset |-> o,
                      format |-> f], a[1], a[2]) :
             l \in Limits, o \in Offsets, f \in Formats,
             a \in Answers(Batches)}

\* A server built with either configuration receives one invocation.
InitTools ==
    /\ GatewayInit
    /\ config \in {[mineruApiKey |-> k] : k \in ApiKeys}
    /\ call \in Invocations

NextTools ==
    \/ MineruParse
    \/ MineruStatus
    \/ MineruBatch
    \/ MineruBatchStatus
    \/ NextPage

SpecTools == InitTools /\ [][NextTools]_vars

\* ------------------------------------------------------------- properties

Built == 1..Len(tr)

\* A session whose handshake assigned an id and whose transport is open.
Live(t) == tr[t].sessionId # Undefined /\ ~tr[t].closed

\* The ids of the sessions that a terminate request has closed.
Terminated == {tr[t].sessionId : t \in {u \in Built : tr[u].closed}}

\* The step is the arrival of a request at one of the three handlers.
Arrives == ev'.op = "request"

\* C1: every request on POST, GET or DELETE /mcp whose session id is missing
\* or not in the registry, and which is not an initialize message sent
\* without a session id, is answered 400, is not forwarded to any transport
\* and leaves the registry unchanged.
C1_UnknownSessionAnswered400 ==
    [][(/\ Arrives
        /\ ev'.sessionId \notin DOMAIN transports
        /\ ~(/\ ev'.method = "POST"
             /\ ~TruthyId(ev'.sessionId)
             /\ ev'.body = "initialize"))
       => /\ ev'.status = "400"
          /\ ev'.transport = Absent
          /\ inflight' = inflight
          /\ transports' = transports]_vars

\* C2: a session id maps to at most one live session; the step that closes
\* a transport removes its registry entry; the id of a closed session is
\* never in the registry again.
C2_OneLiveSessionPerId ==
    /\ [](/\ \A t1, t2 \in Built :
               (Live(t1) /\ Live(t2) /\ tr[t1].sessionId = tr[t2].sessionId)
                  => t1 = t2
          /\ \A s \in DOMAIN transports :
               transports[s] \in Built /\ Live(transports[s])
                  /\ tr[transports[s]].sessionId = s
          /\ Terminated \cap DOMAIN transports = {})
    /\ [][\A t \in Built :
            (~tr[t].closed /\ tr'[t].closed)
               => tr[t].sessionId \notin DOMAIN transports']_vars

\* A session has been closed and removed while another one is registered.
C2_Witness ==
    /\ \E t \in Built : tr[t].closed /\ tr[t].sessionId \in Uuids
    /\ DOMAIN transports # {}

\* C3: from the step that registers s to the step that removes it, every
\* lookup of s by a POST, GET or DELETE resolves to the same transport; after
\* the removal every lookup of s finds nothing.
C3_LookupStable ==
    [][\A s \in Uuids :
         /\ (s \in DOMAIN transports /\ s \in DOMAIN transports')
               => transports'[s] = transports[s]
         /\ (Arrives /\ ev'.sessionId = s /\ s \in DOMAIN transports)
               => ev'.transport = transports[s]
         /\ s \in Terminated
               => /\ Lookup(transports', s) = Absent
                  /\ (Arrives /\ ev'.sessionId = s) => ev'.transport = Absent]_vars

\* A request carrying a registered id was forwarded while the id of a closed
\* session is known.
C3_Witness ==
    /\ ev.op = "request" /\ ev.status = "forwarded"
    /\ ev.sessionId \in DOMAIN transports
    /\ Terminated # {}

\* C4: while an exchange accepted on session s has not yet responded, s is
\* in the registry, also when a terminate request for s arrives meanwhile.
C4_InFlightExchangeKeepsSession ==
    \A i \in 1..Len(inflight) :
        (inflight[i].pc = "handleRequest" /\ inflight[i].method = "POST")
           => tr[inflight[i].transport].sessionId \in DOMAIN transports

\* C5: once a terminate request for session s has been handled, no POST or
\* GET carrying s that arrives afterwards is forwarded to a transport.
C5_NoExchangeAfterTerminate ==
    [][(/\ Arrives
        /\ ev'.method \in {"POST", "GET"}
        /\ ev'.sessionId \in Terminated)
       => /\ ev'.status = "400"
          /\ ev'.transport = Absent
          /\ inflight' = inflight]_vars

\* A POST or GET carrying the id of a terminated session was answered 400.
C5_Witness ==
    /\ ev.op = "request" /\ ev.method \in {"POST", "GET"}
    /\ ev.sessionId \in Terminated
    /\ ev.status = "400"

\* C6 as claimed: an initialize message creates a new session when it
\* carries no session id and also when it carries an id that is not in the
\* registry.
C6_InitializeUnderUnregisteredId ==
    [][(/\ Arrives
        /\ ev'.method = "POST"
        /\ ev'.body = "initialize"
        /\ ev'.sessionId \in {Undefined} \cup Uuids
        /\ ev'.sessionId \notin DOMAIN transports)
       => /\ ev'.status = "connecting"
          /\ Len(tr') = Len(tr) + 1]_vars

\* C6 as amended: an initialize message creates a new session (a transport
\* and a server, registered under a new id once server.connect resolves)
\* only when its session id header is missing or empty; when it carries an
\* id that is not in the registry nothing is created or registered.
C6_InitializeOnlyWithoutId ==
    [][/\ (Arrives /\ ev'.method = "POST" /\ ev'.body = "initialize")
          => IF ~TruthyId(ev'.sessionId)
             THEN /\ ev'.status = "connecting"
                  /\ Len(tr') = Len(tr) + 1
                  /\ ev'.transport = Len(tr')
                  /\ Len(inflight') = Len(inflight) + 1
                  /\ inflight'[Len(inflight')].pc = "connect"
             ELSE ev'.sessionId \notin DOMAIN transports
                     => /\ ev'.status # "connecting"
                        /\ tr' = tr
                        /\ inflight' = inflight
                        /\ transports' = transports
       /\ ev'.op = "connected"
          => /\ ev'.sessionId \notin DOMAIN transports
             /\ ev'.sessionId \in DOMAIN transports'
             /\ transports'[ev'.sessionId] = ev'.transport]_vars

\* An initialize message carrying the id of a closed session was turned away.
C6_Witness ==
    /\ ev.op = "request" /\ ev.method = "POST" /\ ev.body = "initialize"
    /\ ev.sessionId \in Terminated
    /\ ev.status = "400"

\* C7: when forwarding a request to a session's transport fails with an
\* uncaught error, the gateway catches it and answers that request with an
\* error response; the session stays registered and no other session is
\* affected.
C7_ForwardFailureCaught ==
    [][ev'.op = "rejected"
       => /\ ev'.status = "error response"
          /\ transports' = transports
          /\ tr' = tr]_vars

\* C8: a request without a session id whose body is not a valid initialize
\* message is answered 400; no transport or server is built and no registry
\* entry is added.
C8_NoSessionWithoutInitialize ==
    [][(/\ Arrives
        /\ ~TruthyId(ev'.sessionId)
        /\ ~(ev'.method = "POST" /\ ev'.body = "initialize"))
       => /\ ev'.status = "400"
          /\ ev'.transport = Absent
          /\ tr' = tr
          /\ transports' = transports
          /\ inflight' = inflight]_vars

\* A POST without a session id and without an initialize body got 400.
C8_Witness ==
    /\ ev.op = "request" /\ ev.method = "POST" /\ ev.body = "other"
    /\ ~TruthyId(ev.sessionId)
    /\ ev.status = "400"

\* C9: registering a session under an id that is already in the registry
\* fails with a conflict error and leaves the existing entry in place.
C9_RegisterConflictFails ==
    [][(ev'.op = "connected" /\ ev'.sessionId \in DOMAIN transports)
       => /\ ev'.status = "ConflictError"
          /\ transports' = transports]_vars

\* C10: every accepted initialize request builds its own transport and its
\* own server, no two registry ids map to the same transport, and a request
\* carrying id s is forwarded only to the transport registered under s.
C10_OneSessionObjectPerId ==
    /\ [](/\ \A s1, s2 \in DOMAIN transports :
               transports[s1] = transports[s2] => s1 = s2
          /\ \A t1, t2 \in Built : tr[t1].server = tr[t2].server => t1 = t2
          /\ \A i, j \in 1..Len(inflight) :
               (inflight[i].pc = "connect" /\ i # j)
                  => inflight[i].transport # inflight[j].transport)
    /\ [][/\ ev'.status = "connecting"
             => /\ ev'.transport \notin Built
                /\ ev'.transport \in 1..Len(tr')
          /\ (Arrives /\ ev'.status \in {"forwarded", "closed"})
             => /\ ev'.sessionId \in DOMAIN transports
                /\ transports[ev'.sessionId] = ev'.transport
                /\ tr[ev'.transport].sessionId = ev'.sessionId]_vars

\* Two sessions are registered and a request was forwarded to one of them.
C10_Witness ==
    /\ Cardinality(DOMAIN transports) >= 2
    /\ ev.op = "request" /\ ev.status = "forwarded"

\* ------------------------------------------------- properties of the tools

\* The handler of the invocation has run.
Ran(tool) == call.tool = tool /\ call.done

\* C11: a mineru_batch call with more than 200 URLs fails with the
\* validation error and makes no remote call; a call with 200 or fewer URLs
\* passes this check.
C11_BatchOver200Rejected ==
    Ran("mineru_batch")
       => IF call.args.urls > 200
          THEN /\ call.result.isError
               /\ call.result.text
                     = "Max 200 URLs per batch. Split into smaller batches."
               /\ call.result.calls = 0
          ELSE call.result.text
                  # "Max 200 URLs per batch. Split into smaller batches."

\* 201 URLs were turned away although the key is set and the service would
\* have accepted the batch.
C11_Witness ==
    /\ Ran("mineru_batch") /\ call.args.urls = 201
    /\ config.mineruApiKey # "" /\ Succeeds(call.response)
    /\ call.result.isError /\ call.result.calls = 0

\* The concise page of a batch status call succeeded.
ConcisePage ==
    /\ Ran("mineru_batch_status")
    /\ ~call.result.isError
    /\ call.args.format = "concise"

\* The header and the entry lines of a whole batch, and a hint.
HeaderOf(batch) ==
    "Batch " \o batch.batch_id \o ": "
       \o ToString(Cardinality({i \in 1..Len(batch.extract_result) :
                                   batch.extract_result[i].state = "done"}))
       \o "/" \o ToString(Len(batch.extract_result)) \o " done"

LinesOf(batch) ==
    [i \in 1..Len(batch.extract_result) |-> BatchLine(batch.extract_result[i])]

HintOf(remaining, next) ==
    "[+" \o ToString(remaining) \o " more, use offset=" \o ToString(next) \o "]"

\* Page k (from 0) of a batch read in pages of L entries: entries k*L up to
\* (k+1)*L, and the hint exactly when entries remain after it.
PageOf(batch, L, k) ==
    LET N == Len(batch.extract_result) IN
    Join(<<HeaderOf(batch)>>
            \o SubSeq(LinesOf(batch), k * L + 1, Min((k + 1) * L, N))
            \o (IF (k + 1) * L < N
                THEN <<HintOf(N - (k + 1) * L, (k + 1) * L)>> ELSE <<>>),
         "\n")

\* C12: reading a batch of N results with limit L > 0 at offset 0, L, 2L, ...
\* returns every entry exactly once in its original order (page k holds the
\* entries k*L .. (k+1)*L - 1), with the hint on a page exactly when
\* offset + L < N.
C12_PagesPartitionResults ==
    (/\ ConcisePage
     /\ call.args.limit > 0
     /\ call.args.offset = Len(call.earlier) * call.args.limit)
       => LET pages == Append(call.earlier, call.result.text) IN
          \A k \in 1..Len(pages) :
             pages[k] = PageOf(call.data, call.args.limit, k - 1)

\* A walk of at least two pages has reached the last page, which is full.
C12_Witness ==
    /\ ConcisePage
    /\ call.args.limit > 0
    /\ Len(call.earlier) >= 1
    /\ call.args.offset = Len(call.earlier) * call.args.limit
    /\ call.args.offset + call.args.limit = Len(call.data.extract_result)

\* C13: for every limit and offset, concise batch status returns exactly the
\* entries at the indices in [offset, offset+limit) that lie in [0, N),
\* counts the done entries over all N, and appends the hint naming
\* offset+limit whenever offset+limit < N.
C13_SliceClampedToResults ==
    ConcisePage
       => LET N == Len(call.data.extract_result)
              lo == Max(call.args.offset, 0)
              hi == Min(call.args.offset + call.args.limit, N)
          IN  call.result.text
                 = Join(<<HeaderOf(call.data)>>
                           \o (IF lo < hi
                               THEN SubSeq(LinesOf(call.data), lo + 1, hi)
                               ELSE <<>>)
                           \o (IF call.args.offset + call.args.limit < N
                               THEN <<HintOf(N - call.args.offset
                                                - call.args.limit,
                                             call.args.offset
                                                + call.args.limit)>>
                               ELSE <<>>),
                        "\n")

\* C14: whenever the service reports a non-success envelope code, on either
\* path, the error's message is the table's entry for the code when it has
\* one, else the service's message when there is one, else "Unknown error".
C14_EnvelopeErrorMessage ==
    (/\ call.tool # "none" /\ call.done
     /\ call.result.calls > 0
     /\ call.response.code \notin {Undefined, "0"})
       => /\ call.result.isError
          /\ call.result.text
                = "MinerU error " \o call.response.code \o ": "
                     \o (IF call.response.code \in DOMAIN ERROR_MESSAGES
                         THEN ERROR_MESSAGES[call.response.code]
                         ELSE IF call.response.msg \notin {Undefined, ""}
                         THEN call.response.msg
                         ELSE "Unknown error")

\* C15: with an empty credential every tool invocation that would make a
\* remote call fails with the configuration error and issues no HTTP
\* request.
C15_NoKeyNoRequest ==
    (call.tool # "none" /\ call.done /\ config.mineruApiKey = "")
       => /\ call.result.calls = 0
          /\ call.result.isError
          /\ ~(call.tool = "mineru_batch" /\ call.args.urls > 200)
                => call.result.text
                      = "MINERU_API_KEY not set. Add it to your environment."

\* A status query failed on the missing key though the service would have
\* answered it.
C15_Witness ==
    /\ Ran("mineru_status") /\ config.mineruApiKey = ""
    /\ Succeeds(call.response)
    /\ call.result.isError /\ call.result.calls = 0

\* C16: a tool invocation issues at most one HTTP call, whatever the outcome
\* of that call; a failed call is reported to the caller and not repeated.
C16_AtMostOneHttpCall ==
    (call.tool # "none" /\ call.done)
       => /\ call.result.calls <= 1
          /\ (call.result.calls = 1 /\ ~Succeeds(call.response))
                => call.result.isError

\* A call that failed at transport level was made once and reported.
C16_Witness ==
    /\ Ran("mineru_parse") /\ call.response.kind = "none"
    /\ call.result.calls = 1 /\ call.result.isError

\* C17: concise status text is state and task id, joined by " | ", followed
\* by the result URL exactly when the state is done and a URL is present, by
\* "<extracted>/<total> pages" exactly when the state is running and progress
\* is present, by the error message exactly when the state is failed and a
\* message is present, and by nothing in every other case.
C17_ConciseStatusText ==
    (Ran("mineru_status") /\ ~call.result.isError
        /\ call.args.format = "concise")
       => LET s == call.data
              base == s.state \o " | " \o s.task_id
          IN  call.result.text =
                 CASE s.state = "done" /\ s.full_zip_url \notin {Undefined, ""}
                         -> base \o " | " \o s.full_zip_url
                   [] s.state = "running" /\ s.extract_progress # NoProgress
                         -> base \o " | "
                               \o ToString(s.extract_progress.extracted_pages)
                               \o "/"
                               \o ToString(s.extract_progress.total_pages)
                               \o " pages"
                   [] s.state = "failed" /\ s.err_msg \notin {Undefined, ""}
                         -> base \o " | " \o s.err_msg
                   [] OTHER -> base

\* The status of a running task with 3 of 10 pages extracted was formatted.
C17_Witness ==
    /\ Ran("mineru_status") /\ ~call.result.isError
    /\ call.args.format = "concise"
    /\ call.data.full_zip_url # Undefined
    /\ call.result.text = "running | abc-123 | 3/10 pages"

\* ------------------------------------------ properties of the registry (2)

\* The transport registered under a session id, when there is one.
Registered(sessionId) ==
    TruthyId(sessionId) /\ IsTransport(Lookup(transports, sessionId))

\* The transports the registry holds.
InRegistry == {transports[s] : s \in DOMAIN transports}

\* C18: requests carrying the same registered session id reach that
\* session's transport in the order the gateway received them: a request on
\* a registered session is handed to the session's transport in the step in
\* which it arrives, behind every request received before it, none of which
\* on this transport is still waiting to be handed over, whatever initialize
\* requests of other sessions are suspended on server.connect.
C18_SameSessionInArrivalOrder ==
    [][(Arrives /\ Registered(ev'.sessionId))
          => LET t == Lookup(transports, ev'.sessionId) IN
             /\ ev'.transport = t
             /\ \A i \in 1..Len(inflight) :
                   inflight[i].transport = t
                      => inflight[i].pc = "handleRequest"
             /\ IF ev'.method = "DELETE"
                THEN ev'.status = "closed" /\ inflight' = inflight
                ELSE /\ ev'.status = "forwarded"
                     /\ inflight'
                           = Append(inflight,
                                    Suspended(ev'.method, t,
                                              "handleRequest"))]_vars

\* Two requests of one session are with its transport, the later one just
\* received.
C18_Witness ==
    /\ ev.op = "request" /\ ev.status = "forwarded"
    /\ Len(inflight) = 2
    /\ inflight[1].transport = ev.transport
    /\ inflight[2].transport = ev.transport

\* C19: removing a session from the registry is idempotent and local: the
\* close callback of session s removes the entry for s and leaves every
\* other entry as it was, and for an s that has no entry (removed before,
\* or never registered) it leaves the registry as it is.
C19_RemoveIdempotentAndLocal ==
    /\ [](\A s \in Uuids \cup {Undefined} :
             /\ s \notin DOMAIN transports => onclose(transports, s) = transports
             /\ onclose(onclose(transports, s), s) = onclose(transports, s))
    /\ [][\A t \in Built :
             (tr'[t].closed /\ ~tr[t].closed)
                => /\ DOMAIN transports'
                         = DOMAIN transports \ {tr[t].sessionId}
                   /\ \A s \in DOMAIN transports' :
                         transports'[s] = transports[s]]_vars

\* A session was closed while another one stays registered.
C19_Witness ==
    /\ ev.status = "closed"
    /\ ev.sessionId \notin DOMAIN transports
    /\ DOMAIN transports # {}

\* C20: the registry holds only sessions whose session-initialized callback
\* has fired, each under the session id of its transport: a transport
\* created for an initialize request is in no entry while its handler waits
\* on server.connect, and an entry appears only in the step in which that
\* callback fires.
C20_OnlyInitializedSessionsRegistered ==
    /\ [](/\ \A s \in DOMAIN transports :
                /\ transports[s] \in Built
                /\ tr[transports[s]].sessionId = s
          /\ \A i \in 1..Len(inflight) :
                inflight[i].pc = "connect"
                   => /\ inflight[i].transport \notin InRegistry
                      /\ tr[inflight[i].transport].sessionId = Undefined)
    /\ [][DOMAIN transports' \ DOMAIN transports # {}
             => ev'.op = "connected"]_vars

\* One session is registered while the transport of another initialize
\* request is still being connected.
C20_Witness ==
    /\ DOMAIN transports # {}
    /\ \E i \in 1..Len(inflight) :
          /\ inflight[i].pc = "connect"
          /\ inflight[i].transport \notin InRegistry


====
